---- MODULE Spec2Model ----
(***************************************************************************)
(* sl0thifier: the model artifact store (ensure_model of the three model   *)
(* backed stages), the KingSl0th pipeline run by the command line batch    *)
(* (sl0thify.py) and the FancyUI batch thread (sl0thifier/gui.py).         *)
(*                                                                         *)
(* Three specifications share the variables:                               *)
(*   StoreSpec  worker threads (one per image, src/main.py) calling        *)
(*              ensure_model concurrently;                                 *)
(*   Spec       sl0thify.py main(): process_image over the image list;     *)
(*   GuiSpec    FancyUI.start / FancyUI.run_pipeline.                      *)
(***************************************************************************)
EXTENDS Naturals, Integers, Sequences, FiniteSets, TLC

\* ------------------------------------------------------------------ bounds
NImages == 2
MaxCalls == 2
MaxBatches == 2

Images == 1..NImages

\* --------------------------------------------------------------- variables
VARIABLES
    \* the install directory, shared by every thread of the process
    file,        \* path -> "absent" | "partial" | "complete"
    downloads,   \* artifact -> number of HTTP GETs begun for it
    \* one ensure_model call per worker
    epc,         \* worker -> position inside ensure_model
    eart,        \* worker -> artifact of the current / last call
    calls,       \* worker -> number of ensure_model calls made
    \* sl0thify.py: main() and process_image(), KingSl0th.sl0thify()
    cfg,         \* the keyword arguments shared by every image of the batch
    idx,         \* main(): the image the for loop is at
    pc,          \* image -> position of its process_image run
    img,         \* image -> the buffer the local variable `img` holds
    orig,        \* image -> the buffer process_image decoded
    started,     \* image -> the stages begun, in order
    io,          \* image -> <<stage, input, output>> of the stages returned
    child,       \* image -> fate of its upscaler subprocess
    tmp,         \* image -> temporary files of its _run_realesrgan call
    saved,       \* images whose output file was written
    result,      \* image -> "none" | "ok" | "failed"
    err,         \* image -> the exception process_image caught
    face,        \* image -> whether mediapipe detects a face in it
    emptied,     \* the images for which torch.cuda.empty_cache() was called
    sessions,    \* number of ort.InferenceSession objects constructed
    \* sl0thifier/gui.py: FancyUI and its batch thread
    items,       \* self.items: the paths selected, in order
    processing,  \* self.processing
    batches,     \* number of batch threads started
    gbatch,      \* self.items as it was when the running batch was started
    gpc,         \* position of the run_pipeline thread
    gidx,        \* run_pipeline: the index the for loop is at, from 1
    gsrc,        \* run_pipeline: `src`, the path of the current item
    gok,         \* run_pipeline: `ok`
    gchild,      \* fate of the upscaler subprocess of realesrgan_upscale
    gimg,        \* run_pipeline: `img`
    gtmp,        \* the indices whose __sloth_upscaled_<pid>_<idx>.png exists
    gout,        \* the paths whose 512 and 1024 outputs were written
    gdone,       \* the paths of this batch whose loop body ran to its end
    gfailed,     \* the paths of this batch whose loop body raised
    doneSignals, \* number of "All images processed." message boxes
    ginstall,    \* cfg.model_paths: "ready" | "no_exe" | "no_models"
    gsession,    \* inference.bg_session: "None" | "session"
    glog,        \* <<path, log line>> written for the items of this batch
    gsink,       \* what the window was shown for this batch, in order
    bg_choice,   \* run_pipeline's local: self.bg_var.get()
    tone_on,     \* run_pipeline's local: self.tone_var.get()
    gmask,       \* birefnet_remove_bg's locals at one pixel, until run_pipeline goes on
    \* src/main.py: Sl0thifierGUI and its Worker threads
    selected_paths, \* self.selected_paths
    clicks,      \* number of times sl0thify_images started the workers
    wpc,         \* image -> position of its Worker.run
    wlog,        \* image -> the log line its Worker.run wrote
    wsaved,      \* the images whose output Worker.run wrote
    finished,    \* the finished(img_path) signals emitted and not yet delivered
    label,       \* the texts on_done has set the label to, in order
    \* src/sl0thify.py: main() over the files of the input folder
    args,        \* what parse_args returned: clip_limit, tile_size, output_dir
    disk,        \* the image files under the input folder and the output folder
    runs,        \* number of runs of main() started
    mpc,         \* position of main(): "parse", "loop", "exit"
    img_paths,   \* the collected paths the loop has not yet taken
    collected,   \* run -> what collect_images returned
    returned,    \* the sources of this run for which ks.sl0thify returned
    wrote,       \* <<source, output path>> of the saves of this run
    refused      \* the sources of this run whose save the file format refused

storeVars == <<file, downloads, epc, eart, calls>>

cliVars == <<cfg, idx, pc, img, orig, started, io, child, tmp, saved, result, err,
             face, emptied, sessions>>

guiVars == <<items, processing, batches, gbatch, gpc, gidx, gsrc, gok, gchild, gimg,
             gtmp, gout, gdone, gfailed, doneSignals, ginstall, gsession, glog, gsink,
             bg_choice, tone_on, gmask>>

qtVars == <<selected_paths, clicks, wpc, wlog, wsaved, finished, label>>

mainVars == <<args, disk, runs, mpc, img_paths, collected, returned, wrote, refused>>

vars == <<file, downloads, epc, eart, calls,
          cfg, idx, pc, img, orig, started, io, child, tmp, saved, result, err,
          face, emptied, sessions,
          items, processing, batches, gbatch, gpc, gidx, gsrc, gok, gchild, gimg,
          gtmp, gout, gdone, gfailed, doneSignals, ginstall, gsession, glog, gsink,
          bg_choice, tone_on, gmask,
          selected_paths, clicks, wpc, wlog, wsaved, finished, label,
          args, disk, runs, mpc, img_paths, collected, returned, wrote, refused>>

\* what an ensure_model step leaves alone
otherVars == <<cfg, idx, pc, img, orig, started, io, child, tmp, saved, result, err,
               face, emptied, sessions, guiVars, qtVars, mainVars>>

\* ------------------------------------------------------------ the artifacts
Artifacts == {"gfpgan", "realesrgan", "birefnet"}

Paths == {"gfpgan_pth", "realesrgan_exe", "realesrgan_zip", "realesrgan_inner", "birefnet_onnx"}

\* MODEL_PATH / exe: the canonical path whose existence is the readiness signal
MODEL_PATH(a) ==
    CASE a = "gfpgan" -> "gfpgan_pth"
      [] a = "realesrgan" -> "realesrgan_exe"
      [] a = "birefnet" -> "birefnet_onnx"

\* the path the HTTP payload is written to
DownloadTarget(a) ==
    CASE a = "gfpgan" -> "gfpgan_pth"
      [] a = "realesrgan" -> "realesrgan_zip"
      [] a = "birefnet" -> "birefnet_onnx"

exists(p) == file[p] # "absent"

EnsureDone == {"returned", "ModelNotInstalled"}

\* a worker that found the artifact missing and has not finished installing it
InFlight(w) == epc[w] \in {"request", "stream", "write", "extract", "prepare", "verify"}

\* another worker has the same download target open for writing
OtherWriter(w) ==
    \E v \in Images : v # w /\ epc[v] = "stream"
        /\ DownloadTarget(eart[v]) = DownloadTarget(eart[w])

\* ------------------------------------------------- ensure_model, step by step
\* `if self.MODEL_PATH.exists(): return` / `if exe.exists(): return exe`
ArtifactReady_never(a) == FALSE

ArtifactReady(a) == exists(MODEL_PATH(a))

\* zip_path.unlink() inside try/except: it removes the archive, or fails
\* silently while another thread still holds the archive open for writing
UnlinkZip(f, w) ==
    {[f EXCEPT !["realesrgan_zip"] = "absent"]}
        \cup (IF \E v \in Images : v # w /\ epc[v] = "stream" /\ eart[v] = "realesrgan"
              THEN {f} ELSE {})

\* the existence test that opens every ensure_model
ensure_model_check(w) ==
    /\ epc[w] = "check"
    /\ IF ArtifactReady(eart[w])
       THEN epc' = [epc EXCEPT ![w] = "returned"]
       ELSE epc' = [epc EXCEPT ![w] = "request"]
    /\ UNCHANGED <<file, downloads, eart, calls, otherVars>>

\* httpx.stream("GET", ...) / httpx.get(...): the request is sent; it fails
\* (connection error, raise_for_status) or the payload starts to arrive and,
\* for the streamed artifacts, the target file is opened "wb"
ensure_model_request(w) ==
    /\ epc[w] = "request"
    /\ downloads' = [downloads EXCEPT ![eart[w]] = @ + 1]
    /\ \/ /\ epc' = [epc EXCEPT ![w] = "ModelNotInstalled"]
          /\ UNCHANGED file
       \/ /\ eart[w] # "birefnet"
          /\ file' = [file EXCEPT ![DownloadTarget(eart[w])] = "partial"]
          /\ epc' = [epc EXCEPT ![w] = "stream"]
       \/ /\ eart[w] = "birefnet"
          /\ epc' = [epc EXCEPT ![w] = "write"]
          /\ UNCHANGED file
    /\ UNCHANGED <<eart, calls, otherVars>>

\* what the target holds once this writer has written its last chunk
StreamedState(w) ==
    IF file[DownloadTarget(eart[w])] = "absent" THEN {"absent"}
    ELSE IF OtherWriter(w) THEN {"partial", "complete"}
    ELSE {"complete"}

\* `for chunk in r.iter_bytes(): f.write(chunk)`: the stream breaks in the
\* middle (the bytes written so far stay in the target) or runs to its end
ensure_model_stream(w) ==
    /\ epc[w] = "stream"
    /\ \/ /\ epc' = [epc EXCEPT ![w] = "ModelNotInstalled"]
          /\ UNCHANGED file
       \/ /\ \E st \in StreamedState(w) :
                file' = [file EXCEPT ![DownloadTarget(eart[w])] = st]
          /\ epc' = [epc EXCEPT ![w] =
                        IF eart[w] = "gfpgan" THEN "verify" ELSE "extract"]
    /\ UNCHANGED <<downloads, eart, calls, otherVars>>

\* ImageBackgroundRemover: open(MODEL_PATH, "wb"); f.write(response.content)
ensure_model_write(w) ==
    /\ epc[w] = "write"
    /\ \/ /\ file' = [file EXCEPT !["birefnet_onnx"] = "complete"]
          /\ epc' = [epc EXCEPT ![w] = "returned"]
       \/ /\ file' = [file EXCEPT !["birefnet_onnx"] = "partial"]
          /\ epc' = [epc EXCEPT ![w] = "ModelNotInstalled"]
    /\ UNCHANGED <<downloads, eart, calls, otherVars>>

\* FaceRefocuser: `if not self.MODEL_PATH.exists(): raise ModelNotInstalled`
ensure_model_verify(w) ==
    /\ epc[w] = "verify"
    /\ epc' = [epc EXCEPT ![w] =
                  IF exists("gfpgan_pth") THEN "returned" ELSE "ModelNotInstalled"]
    /\ UNCHANGED <<file, downloads, eart, calls, otherVars>>

\* ImageUpscaler: zipfile.ZipFile(zip_path).extractall(realesrgan_dir).
\* A missing or truncated archive raises; a complete one is unpacked, and holds
\* the executable at the top level ("flat"), in a sub-folder ("nested") or not
\* at all ("noexe"); unpacking may break while the executable is written.
ensure_model_extract(w) ==
    /\ epc[w] = "extract"
    /\ \/ /\ file["realesrgan_zip"] # "complete"
          /\ file' \in UnlinkZip(file, w)
          /\ epc' = [epc EXCEPT ![w] = "ModelNotInstalled"]
       \/ /\ file["realesrgan_zip"] = "complete"
          /\ \E layout \in {"flat", "nested", "noexe"}, ok \in BOOLEAN :
                LET p == IF layout = "flat" THEN "realesrgan_exe" ELSE "realesrgan_inner"
                    f1 == IF layout = "noexe" THEN file
                          ELSE [file EXCEPT ![p] = IF ok THEN "complete" ELSE "partial"]
                IN  IF ok
                    THEN /\ file' = f1
                         /\ epc' = [epc EXCEPT ![w] = "prepare"]
                    ELSE /\ file' \in UnlinkZip(f1, w)
                         /\ epc' = [epc EXCEPT ![w] = "ModelNotInstalled"]
    /\ UNCHANGED <<downloads, eart, calls, otherVars>>

\* next(realesrgan_dir.rglob(exe_name), None): any file of that name
rglob_exe == {p \in {"realesrgan_exe", "realesrgan_inner"} : exists(p)}

\* ImageUpscaler: locate the executable, shutil.move it to the canonical
\* path, chmod, `finally` unlink the archive, then the closing existence test
ensure_model_prepare(w) ==
    /\ epc[w] = "prepare"
    /\ \E inner_exe \in (IF rglob_exe = {} THEN {"none"} ELSE rglob_exe) :
          LET f1 == IF inner_exe = "realesrgan_inner"
                    THEN [file EXCEPT !["realesrgan_exe"] = file["realesrgan_inner"],
                                      !["realesrgan_inner"] = "absent"]
                    ELSE file
          IN  /\ file' \in UnlinkZip(f1, w)
              /\ epc' = [epc EXCEPT ![w] =
                            IF f1["realesrgan_exe"] # "absent"
                            THEN "returned" ELSE "ModelNotInstalled"]
    /\ UNCHANGED <<downloads, eart, calls, otherVars>>

\* ------------------------------------------- StoreSpec: concurrent callers
\* a worker thread reaches a stage's ensure_model() call
Worker_ensure_model(w, a) ==
    /\ epc[w] \in {"idle"} \cup EnsureDone
    /\ calls[w] < MaxCalls
    /\ calls' = [calls EXCEPT ![w] = @ + 1]
    /\ eart' = [eart EXCEPT ![w] = a]
    /\ epc' = [epc EXCEPT ![w] = "check"]
    /\ UNCHANGED <<file, downloads, otherVars>>

InstallDirInit ==
    /\ file \in [Paths -> {"absent", "complete"}]
    /\ file["realesrgan_zip"] = "absent"
    /\ file["realesrgan_inner"] = "absent"
    /\ downloads = [a \in Artifacts |-> 0]

\* birefnet_remove_bg has computed no mask
NoMask == [result |-> 0, mask |-> 0]

\* the pipeline variables of a process that runs no batch
NoImage == [mode |-> "none", w |-> 0, h |-> 0, by |-> <<>>]

CliIdle ==
    /\ cfg = [remove_bg |-> FALSE, bg_color |-> "none",
              output_width |-> 0, output_height |-> 0]
    /\ idx = 0
    /\ pc = [i \in Images |-> "pending"]
    /\ img = [i \in Images |-> NoImage]
    /\ orig = [i \in Images |-> NoImage]
    /\ started = [i \in Images |-> <<>>]
    /\ io = [i \in Images |-> <<>>]
    /\ child = [i \in Images |-> "none"]
    /\ tmp = [i \in Images |-> {}]
    /\ saved = {}
    /\ result = [i \in Images |-> "none"]
    /\ err = [i \in Images |-> "none"]
    /\ face = [i \in Images |-> FALSE]
    /\ emptied = {}
    /\ sessions = 0

\* the FancyUI variables of a process that shows no FancyUI window
GuiIdle ==
    /\ items = <<>>
    /\ processing = FALSE
    /\ batches = 0
    /\ gbatch = <<>>
    /\ gpc = "idle"
    /\ gidx = 0
    /\ gsrc = 0
    /\ gok = FALSE
    /\ gchild = "none"
    /\ gimg = NoImage
    /\ gtmp = {}
    /\ gout = {}
    /\ gdone = {}
    /\ gfailed = {}
    /\ doneSignals = 0
    /\ ginstall = "ready"
    /\ gsession = "None"
    /\ glog = {}
    /\ gsink = <<>>
    /\ bg_choice = "transparent"
    /\ tone_on = TRUE
    /\ gmask = NoMask

\* the Sl0thifierGUI variables of a process that shows no Sl0thifierGUI window
QtIdle ==
    /\ selected_paths = <<>>
    /\ clicks = 0
    /\ wpc = [w \in Images |-> "none"]
    /\ wlog = [w \in Images |-> "none"]
    /\ wsaved = {}
    /\ finished = <<>>
    /\ label = <<>>

\* the main() variables of a process that is not the command line of a folder
MainIdle ==
    /\ args = [clip_limit |-> 1, tile_size |-> 4, output_dir |-> "default"]
    /\ disk = {}
    /\ runs = 0
    /\ mpc = "exit"
    /\ img_paths = {}
    /\ collected = <<>>
    /\ returned = {}
    /\ wrote = {}
    /\ refused = {}

StoreInit ==
    /\ InstallDirInit
    /\ CliIdle
    /\ GuiIdle
    /\ QtIdle
    /\ MainIdle
    /\ epc = [w \in Images |-> "idle"]
    /\ eart = [w \in Images |-> "gfpgan"]
    /\ calls = [w \in Images |-> 0]

StoreNext ==
    \E w \in Images :
        \/ \E a \in Artifacts : Worker_ensure_model(w, a)
        \/ ensure_model_check(w)
        \/ ensure_model_request(w)
        \/ ensure_model_stream(w)
        \/ ensure_model_write(w)
        \/ ensure_model_verify(w)
        \/ ensure_model_extract(w)
        \/ ensure_model_prepare(w)

StoreSpec == StoreInit /\ [][StoreNext]_vars

\* ------------------------------------- sl0thify.py: one image of the batch
GFPGAN_upscale == 2
realesrgan_scale == 4

\* width and height of the source files
SrcDims == {<<128, 128>>, <<512, 256>>}

\* the command line: --remove-bg, --bg-color, --width, --height
Configs ==
    {[remove_bg |-> r, bg_color |-> c, output_width |-> d[1], output_height |-> d[2]] :
        r \in BOOLEAN, c \in {"none", "white"}, d \in {<<512, 512>>, <<0, 512>>}}

\* the state of the image's pipeline, in the words of the state machine
State(i) ==
    CASE pc[i] = "pending" -> "Pending"
      [] pc[i] \in {"refocus", "refocus_ensure"} -> "Restoring"
      [] pc[i] \in {"upscale", "upscale_ensure", "upscale_wait"} -> "Upscaling"
      [] pc[i] = "enhance" -> "Enhancing"
      [] pc[i] \in {"bg", "bg_ensure"} -> "BackgroundRemoving"
      [] pc[i] = "resize" -> "Resizing"
      [] pc[i] = "save" -> "Saving"
      [] pc[i] = "done" -> "Done"
      [] pc[i] = "failed" -> "Failed"

\* process_image: `except Exception as e: logger.error(...)`; the run of this
\* image is over and main()'s loop moves on
process_image_except_continue(i, e) ==
    /\ result' = [result EXCEPT ![i] = "failed"]
    /\ err' = [err EXCEPT ![i] = e]
    /\ pc' = [pc EXCEPT ![i] = "save"]
    /\ UNCHANGED idx

process_image_except(i, e) ==
    /\ result' = [result EXCEPT ![i] = "failed"]
    /\ err' = [err EXCEPT ![i] = e]
    /\ pc' = [pc EXCEPT ![i] = "failed"]
    /\ idx' = idx + 1

\* the buffer a stage is handed: `img = self.<stage>.sl0thify(img, **kwargs)`
StageInput(i) == img[i]

\* the stage that follows `stage` in KingSl0th.sl0thify
KingSl0th_after_always_bg(stage) ==
    CASE stage = "refocus" -> "upscale"
      [] stage = "upscale" -> "enhance"
      [] stage = "enhance" -> "bg"
      [] stage = "bg" -> "resize"

KingSl0th_after(stage) ==
    CASE stage = "refocus" -> "upscale"
      [] stage = "upscale" -> "enhance"
      [] stage = "enhance" -> IF cfg.remove_bg THEN "bg" ELSE "resize"
      [] stage = "bg" -> "resize"

\* a stage returns `out` for the input `inp`
StageReturns(i, stage, inp, out) ==
    /\ img' = [img EXCEPT ![i] = out]
    /\ io' = [io EXCEPT ![i] = Append(@, <<stage, inp, out>>)]
    /\ pc' = [pc EXCEPT ![i] = KingSl0th_after(stage)]
    /\ UNCHANGED <<idx, result, err>>

\* a stage is entered and calls ensure_model() first
StageBegins(i, stage, a, at) ==
    /\ started' = [started EXCEPT ![i] = Append(@, stage)]
    /\ pc' = [pc EXCEPT ![i] = at]
    /\ epc' = [epc EXCEPT ![i] = "check"]
    /\ eart' = [eart EXCEPT ![i] = a]
    /\ UNCHANGED <<guiVars, qtVars, mainVars, face, emptied, sessions, file, downloads, calls, cfg, idx, img, orig, io, child, tmp,
                   saved, result, err>>

\* the channel layouts of the source files
SrcModes == {"RGB", "RGBA"}

\* Image.convert(mode): the layout changes, size and content stay
convert(b, mode) == [b EXCEPT !.mode = mode]

\* Image.open(img_path).convert("RGB"); the file shows a face or not
process_image_open(i) ==
    /\ idx = i /\ pc[i] = "pending"
    /\ \/ /\ \E d \in SrcDims, m \in SrcModes :
                LET b == convert([mode |-> m, w |-> d[1], h |-> d[2], by |-> <<>>], "RGB")
                IN  img' = [img EXCEPT ![i] = b] /\ orig' = [orig EXCEPT ![i] = b]
          /\ \E f \in BOOLEAN : face' = [face EXCEPT ![i] = f]
          /\ pc' = [pc EXCEPT ![i] = "refocus"]
          /\ UNCHANGED <<idx, result, err>>
       \/ /\ process_image_except(i, "UnidentifiedImageError")
          /\ UNCHANGED <<img, orig, face>>
    /\ UNCHANGED <<guiVars, qtVars, mainVars, emptied, sessions, storeVars, cfg, started, io, child, tmp, saved>>

\* FaceRefocuser.sl0thify: self.ensure_model()
FaceRefocuser_sl0thify(i) ==
    /\ idx = i /\ pc[i] = "refocus"
    /\ StageBegins(i, "refocus", "gfpgan", "refocus_ensure")

\* FaceRefocuser.sl0thify after ensure_model. Without a detection the input
\* is returned. With one, GFPGANer(...) is constructed outside any try block:
\* it may raise, and does on a truncated weight file; then restorer.enhance
\* runs inside the try block, and both its success path and its except
\* clause call torch.cuda.empty_cache()
FaceRefocuser_restore(i) ==
    /\ idx = i /\ pc[i] = "refocus_ensure" /\ epc[i] \in EnsureDone
    /\ epc' = [epc EXCEPT ![i] = "idle"]
    /\ LET inp == StageInput(i) IN
       \/ /\ epc[i] = "ModelNotInstalled"
          /\ process_image_except(i, "ModelNotInstalled")
          /\ UNCHANGED <<img, io, emptied>>
       \/ /\ epc[i] = "returned" /\ ~face[i]
          /\ StageReturns(i, "refocus", inp, inp)
          /\ UNCHANGED emptied
       \/ /\ epc[i] = "returned" /\ face[i]
          /\ \/ /\ process_image_except(i, "Exception")
                /\ UNCHANGED <<img, io, emptied>>
             \/ /\ file["gfpgan_pth"] = "complete"
                /\ emptied' = emptied \cup {i}
                /\ \/ StageReturns(i, "refocus", inp,
                          [mode |-> "RGB", w |-> inp.w * GFPGAN_upscale,
                           h |-> inp.h * GFPGAN_upscale, by |-> Append(inp.by, "refocus")])
                   \/ StageReturns(i, "refocus", inp, inp)
    /\ UNCHANGED <<guiVars, qtVars, mainVars, face, sessions, file, downloads, eart, calls, cfg, orig,
                   started, child, tmp, saved>>

\* ImageUpscaler.sl0thify: exe = self.ensure_model()
ImageUpscaler_sl0thify(i) ==
    /\ idx = i /\ pc[i] = "upscale"
    /\ StageBegins(i, "upscale", "realesrgan", "upscale_ensure")

\* _run_realesrgan up to subprocess.run: tmpdir.mkdir and img.save(in_path),
\* which may raise; then the child is started, or subprocess.run itself raises
\* (the executable cannot be run): no except clause is there, the exception
\* leaves as it is, and `finally` removes the files
run_realesrgan_launch(i) ==
    /\ idx = i /\ pc[i] = "upscale_ensure" /\ epc[i] \in EnsureDone
    /\ epc' = [epc EXCEPT ![i] = "idle"]
    /\ \/ /\ epc[i] = "ModelNotInstalled"
          /\ process_image_except(i, "ModelNotInstalled")
          /\ UNCHANGED <<child, tmp>>
       \/ /\ epc[i] = "returned"
          /\ \/ /\ process_image_except(i, "OSError")
                /\ UNCHANGED <<child, tmp>>
             \/ /\ process_image_except(i, "OSError")
                /\ child' = [child EXCEPT ![i] = "raised"]
                /\ UNCHANGED tmp
             \/ /\ child' = [child EXCEPT ![i] = "running"]
                /\ tmp' = [tmp EXCEPT ![i] = {"dir", "in"}]
                /\ pc' = [pc EXCEPT ![i] = "upscale_wait"]
                /\ UNCHANGED <<idx, result, err>>
    /\ UNCHANGED <<guiVars, qtVars, mainVars, face, emptied, sessions, file, downloads, eart, calls, cfg, img, orig, started, io, saved>>

\* the realesrgan-ncnn-vulkan process: it exits with a status, having written
\* out.png or not, or it never exits; a truncated executable cannot succeed
realesrgan_process(i) ==
    /\ child[i] = "running"
    /\ \/ /\ child' = [child EXCEPT ![i] = "hung"]
          /\ UNCHANGED tmp
       \/ \E code \in {"exited0", "exited1"}, out \in BOOLEAN :
             /\ code = "exited0" => file["realesrgan_exe"] = "complete"
             /\ child' = [child EXCEPT ![i] = code]
             /\ tmp' = [tmp EXCEPT ![i] = IF out THEN @ \cup {"out"} ELSE @]
    /\ UNCHANGED <<guiVars, qtVars, mainVars, face, emptied, sessions, storeVars, cfg, idx, pc, img, orig, started, io, saved, result, err>>

\* subprocess.run(cmd, ...) of _run_realesrgan carries no timeout argument: it
\* returns when the child has exited, and only then
run_realesrgan_waits(i) == child[i] \in {"exited0", "exited1"}

\* _run_realesrgan from the return of subprocess.run: the status and the
\* output file are tested, the result is read, `finally` removes the files
run_realesrgan_end(i) ==
    /\ idx = i /\ pc[i] = "upscale_wait"
    /\ run_realesrgan_waits(i)
    /\ child' = [child EXCEPT ![i] = "none"]
    /\ tmp' = [tmp EXCEPT ![i] = {}]
    /\ LET inp == StageInput(i) IN
       IF child[i] = "exited0" /\ "out" \in tmp[i]
       THEN StageReturns(i, "upscale", inp,
               [mode |-> "RGB", w |-> inp.w * realesrgan_scale,
                h |-> inp.h * realesrgan_scale, by |-> Append(inp.by, "upscale")])
       ELSE /\ process_image_except(i, "RuntimeError")
            /\ UNCHANGED <<img, io>>
    /\ UNCHANGED <<guiVars, qtVars, mainVars, face, emptied, sessions, storeVars, cfg, orig, started, saved>>

\* ImageEnhancer.sl0thify: CLAHE on the L channel; an OpenCV call may raise
ImageEnhancer_sl0thify(i) ==
    /\ idx = i /\ pc[i] = "enhance"
    /\ started' = [started EXCEPT ![i] = Append(@, "enhance")]
    /\ LET inp == StageInput(i) IN
       \/ StageReturns(i, "enhance", inp,
             [mode |-> "RGB", w |-> inp.w, h |-> inp.h, by |-> Append(inp.by, "enhance")])
       \/ /\ process_image_except(i, "cv2.error")
          /\ UNCHANGED <<img, io>>
    /\ UNCHANGED <<guiVars, qtVars, mainVars, face, emptied, sessions, storeVars, cfg, orig, child, tmp, saved>>

\* KingSl0th.sl0thify: `if remove_bg:`; ImageBackgroundRemover.sl0thify:
\* self.ensure_model()
ImageBackgroundRemover_sl0thify(i) ==
    /\ idx = i /\ pc[i] = "bg"
    /\ StageBegins(i, "bg", "birefnet", "bg_ensure")

\* ort.InferenceSession(str(self.MODEL_PATH)) inside the try block: a session
\* is made only from a completely written weight file
InferenceSession_loads_any == TRUE

InferenceSession_loads == file["birefnet_onnx"] = "complete"

\* ImageBackgroundRemover.sl0thify: the layout of its result, RGBA, or RGB
\* after alpha_composite(...).convert("RGB") when a background colour is given
bg_result_mode_rgba == "RGBA"

bg_result_mode == IF cfg.bg_color = "none" THEN "RGBA" ELSE "RGB"

\* ImageBackgroundRemover.sl0thify after ensure_model: inside the try block a
\* session is constructed from the weight file, by every call, and run; either
\* may raise, which the except clause turns into RuntimeError; then the mask
\* becomes the alpha channel and, with a colour, the image is composited
ImageBackgroundRemover_run(i) ==
    /\ idx = i /\ pc[i] = "bg_ensure" /\ epc[i] \in EnsureDone
    /\ epc' = [epc EXCEPT ![i] = "idle"]
    /\ LET inp == StageInput(i) IN
       \/ /\ epc[i] = "ModelNotInstalled"
          /\ process_image_except(i, "ModelNotInstalled")
          /\ UNCHANGED <<img, io, sessions>>
       \/ /\ epc[i] = "returned"
          /\ \/ /\ process_image_except(i, "RuntimeError")
                /\ UNCHANGED <<img, io, sessions>>
             \/ /\ InferenceSession_loads
                /\ sessions' = sessions + 1
                /\ \/ /\ process_image_except(i, "RuntimeError")
                      /\ UNCHANGED <<img, io>>
                   \/ StageReturns(i, "bg", inp,
                         [mode |-> bg_result_mode,
                          w |-> inp.w, h |-> inp.h, by |-> Append(inp.by, "bg")])
    /\ UNCHANGED <<guiVars, qtVars, mainVars, face, emptied, file, downloads, eart, calls, cfg, orig,
                   started, child, tmp, saved>>

\* resize_image / Image.resize(size, LANCZOS): the image takes the size given
resize_thumbnail(b, size) ==
    [b EXCEPT !.w = size[1],
              !.h = IF b.w = b.h THEN size[2] ELSE (b.h * size[1]) \div b.w,
              !.by = Append(@, "resize")]

resize(b, size) ==
    [b EXCEPT !.w = size[1], !.h = size[2], !.by = Append(@, "resize")]

\* KingSl0th.sl0thify, step 5: `if output_width and output_height: img.resize`
KingSl0th_resize(i) ==
    /\ idx = i /\ pc[i] = "resize"
    /\ LET inp == StageInput(i) IN
       IF cfg.output_width # 0 /\ cfg.output_height # 0
       THEN /\ started' = [started EXCEPT ![i] = Append(@, "resize")]
            /\ img' = [img EXCEPT ![i] =
                          resize(inp, <<cfg.output_width, cfg.output_height>>)]
            /\ io' = [io EXCEPT ![i] = Append(@, <<"resize", inp, img'[i]>>)]
       ELSE UNCHANGED <<started, img, io>>
    /\ pc' = [pc EXCEPT ![i] = "save"]
    /\ UNCHANGED <<guiVars, qtVars, mainVars, face, emptied, sessions, storeVars, cfg, idx, orig, child,
                   tmp, saved, result, err>>

\* process_image: final.save(output_path)
process_image_save(i) ==
    /\ idx = i /\ pc[i] = "save"
    /\ \/ /\ saved' = saved \cup {i}
          /\ result' = [result EXCEPT ![i] = "ok"]
          /\ pc' = [pc EXCEPT ![i] = "done"]
          /\ idx' = idx + 1
          /\ UNCHANGED err
       \/ /\ process_image_except(i, "OSError")
          /\ UNCHANGED saved
    /\ UNCHANGED <<guiVars, qtVars, mainVars, face, emptied, sessions, storeVars, cfg, img, orig, started, io, child, tmp>>

\* ------------------------------------------------ Spec: the command line
Init ==
    /\ InstallDirInit
    /\ epc = [w \in Images |-> "idle"]
    /\ eart = [w \in Images |-> "gfpgan"]
    /\ calls = [w \in Images |-> 0]
    /\ cfg \in Configs
    /\ idx = 1
    /\ pc = [i \in Images |-> "pending"]
    /\ img = [i \in Images |-> NoImage]
    /\ orig = [i \in Images |-> NoImage]
    /\ started = [i \in Images |-> <<>>]
    /\ io = [i \in Images |-> <<>>]
    /\ child = [i \in Images |-> "none"]
    /\ tmp = [i \in Images |-> {}]
    /\ saved = {}
    /\ result = [i \in Images |-> "none"]
    /\ err = [i \in Images |-> "none"]
    /\ face = [i \in Images |-> FALSE]
    /\ emptied = {}
    /\ sessions = 0
    /\ GuiIdle
    /\ QtIdle
    /\ MainIdle

Next ==
    \E i \in Images :
        \/ process_image_open(i)
        \/ FaceRefocuser_sl0thify(i)
        \/ FaceRefocuser_restore(i)
        \/ ImageUpscaler_sl0thify(i)
        \/ run_realesrgan_launch(i)
        \/ realesrgan_process(i)
        \/ run_realesrgan_end(i)
        \/ ImageEnhancer_sl0thify(i)
        \/ ImageBackgroundRemover_sl0thify(i)
        \/ ImageBackgroundRemover_run(i)
        \/ KingSl0th_resize(i)
        \/ process_image_save(i)
        \/ ensure_model_check(i)
        \/ ensure_model_request(i)
        \/ ensure_model_stream(i)
        \/ ensure_model_write(i)
        \/ ensure_model_verify(i)
        \/ ensure_model_extract(i)
        \/ ensure_model_prepare(i)

Spec == Init /\ [][Next]_vars

\* --------------------------------------------- sl0thifier/gui.py: FancyUI
\* the lists of paths a file dialog can hand to load_thumbnails
Selections ==
    {<<>>} \cup {<<i>> : i \in Images}
        \cup {s \in {<<i, j>> : i \in Images, j \in Images} : s[1] # s[2]}

\* the values of the background combobox: "transparent" or a colour
BgChoices == {"transparent", "white"}

ThreadAlive == gpc \notin {"idle", "dead"}

\* what every step of FancyUI leaves alone
guiRest == <<storeVars, cliVars, qtVars, mainVars, ginstall, gsession>>

\* select_images -> load_thumbnails: self.items is cleared and refilled with
\* the paths whose thumbnail could be made
select_images(sel) ==
    /\ items' = sel
    /\ UNCHANGED <<guiRest, bg_choice, tone_on, gmask, processing, batches, gbatch, gpc, gidx, gsrc, gok,
                   gchild, gimg, gtmp, gout, gdone, gfailed, doneSignals, glog, gsink>>

\* FancyUI.start: `if self.processing: return`
start_returns_never(flag) == FALSE

start_returns(flag) == flag

\* FancyUI.start: nothing while a batch is processing or without items;
\* otherwise the flag is set and the run_pipeline thread started, which reads
\* the background choice and the tone checkbox once, before its loop
start ==
    /\ ~start_returns(processing)
    /\ items # <<>>
    /\ batches < MaxBatches
    /\ processing' = TRUE
    /\ batches' = batches + 1
    /\ gbatch' = items
    /\ gpc' = "loop"
    /\ gidx' = 0
    /\ gdone' = {}
    /\ gfailed' = {}
    /\ glog' = {}
    /\ gsink' = <<>>
    /\ bg_choice' \in BgChoices
    /\ tone_on' \in BOOLEAN
    /\ UNCHANGED <<guiRest, gmask, items, gsrc, gok, gchild, gimg, gtmp, gout, doneSignals>>

\* run_pipeline: `for idx, it in enumerate(self.items)` takes the next item,
\* or the list is exhausted: self.processing = False and the message box
run_pipeline_loop ==
    /\ gpc = "loop"
    /\ IF gidx < Len(items)
       THEN /\ gidx' = gidx + 1
            /\ gsrc' = items[gidx + 1]
            /\ gpc' = "upscale"
            /\ UNCHANGED <<processing, doneSignals, gsink>>
       ELSE /\ processing' = FALSE
            /\ doneSignals' = doneSignals + 1
            /\ gsink' = Append(gsink, <<"done">>)
            /\ gpc' = "idle"
            /\ UNCHANGED <<gidx, gsrc>>
    /\ UNCHANGED <<guiRest, bg_choice, tone_on, gmask, items, batches, gbatch, gok, gchild, gimg, gtmp,
                   gout, gdone, gfailed, glog>>

\* realesrgan_upscale up to subprocess.run: False without the executable or
\* the model directory, or when the child cannot be started
realesrgan_upscale ==
    /\ gpc = "upscale"
    /\ \/ /\ gok' = FALSE
          /\ gpc' = "open"
          /\ UNCHANGED gchild
       \/ /\ ginstall = "ready"
          /\ gchild' = "running"
          /\ gpc' = "upscale_wait"
          /\ UNCHANGED gok
    /\ UNCHANGED <<guiRest, bg_choice, tone_on, gmask, items, processing, batches, gbatch, gidx, gsrc,
                   gimg, gtmp, gout, gdone, gfailed, doneSignals, glog, gsink>>

\* the realesrgan-ncnn-vulkan process started by realesrgan_upscale: it exits
\* with a status, having written the output file or not, or it never exits
gui_realesrgan_process ==
    /\ gchild = "running"
    /\ \E fate \in {"exited0", "exited1", "hung"}, out \in BOOLEAN :
          /\ gchild' = fate
          /\ gtmp' = IF out THEN gtmp \cup {gidx} ELSE gtmp
    /\ UNCHANGED <<guiRest, bg_choice, tone_on, gmask, items, processing, batches, gbatch, gpc, gidx, gsrc,
                   gok, gimg, gout, gdone, gfailed, doneSignals, glog, gsink>>

\* subprocess.run(cmd, check=True, timeout=900): it returns when the child has
\* exited or when the timeout expires
realesrgan_upscale_waits == gchild \in {"exited0", "exited1", "hung"}

\* what realesrgan_upscale returns once subprocess.run is over: TimeoutExpired
\* and CalledProcessError (check=True) are caught and give False, exit status
\* 0 gives os.path.exists(out_path)
realesrgan_upscale_result_unchecked ==
    CASE gchild = "hung" -> FALSE
      [] gchild = "exited1" -> gidx \in gtmp
      [] gchild = "exited0" -> gidx \in gtmp

realesrgan_upscale_result ==
    CASE gchild = "hung" -> FALSE
      [] gchild = "exited1" -> FALSE
      [] gchild = "exited0" -> gidx \in gtmp

\* realesrgan_upscale from the return of subprocess.run; the timeout is
\* logged ("RealESRGAN process timed out") and False returned
realesrgan_upscale_returns ==
    /\ gpc = "upscale_wait"
    /\ realesrgan_upscale_waits
    /\ gok' = realesrgan_upscale_result
    /\ glog' = IF gchild = "hung" THEN glog \cup {<<gsrc, "timed out">>} ELSE glog
    /\ gchild' = "none"
    /\ gpc' = "open"
    /\ UNCHANGED <<guiRest, bg_choice, tone_on, gmask, items, processing, batches, gbatch, gidx, gsrc,
                   gimg, gtmp, gout, gdone, gfailed, doneSignals, gsink>>

\* run_pipeline: `base_path = upscaled_tmp if ok else src`
base_path == IF gok THEN "upscaled_tmp" ELSE "src"

\* run_pipeline: Image.open(base_path).convert("RGBA"); the upscaled file is
\* four times the source ("-s", "4"). Nothing catches a failure to decode:
\* the thread ends there.
run_pipeline_open ==
    /\ gpc = "open"
    /\ \/ /\ \E d \in SrcDims :
                gimg' = [mode |-> "RGBA",
                         w |-> IF gok THEN d[1] * realesrgan_scale ELSE d[1],
                         h |-> IF gok THEN d[2] * realesrgan_scale ELSE d[2],
                         by |-> <<base_path>>]
          /\ gpc' = "bg"
          /\ UNCHANGED gfailed
       \/ /\ gpc' = "dead"
          /\ gfailed' = gfailed \cup {gsrc}
          /\ UNCHANGED gimg
    /\ UNCHANGED <<guiRest, bg_choice, tone_on, gmask, items, processing, batches, gbatch, gidx, gsrc,
                   gok, gchild, gtmp, gout, gdone, doneSignals, glog, gsink>>

\* utils.ensure_png_alpha: img.convert("RGBA")
ensure_png_alpha(b) == [b EXCEPT !.mode = "RGBA"]

\* birefnet_remove_bg: what the try block builds from the thresholded mask.
\* "transparent" writes the mask into the alpha channel; any other choice
\* blends all four channels with (r, g, b, 255) by the mask. Either way the
\* array is returned as Image.fromarray(np_rgba, "RGBA").
masked(b, choice) ==
    [mode |-> "RGBA", w |-> b.w, h |-> b.h,
     by |-> Append(b.by, IF choice = "transparent" THEN "alpha_mask" ELSE "blend")]

\* the values the model puts out at a pixel, in tenths
MaskTenths == {3, 7}

\* birefnet_remove_bg: `mask = (mask > 0.5).astype("uint8") * 255`, computed
\* before the branch on bg_choice; m is the model's output in tenths
threshold(m) == IF m > 5 THEN 255 ELSE 0

\* birefnet_remove_bg(img, bg_choice) where `throws` says whether the code
\* inside its try block raises and m is the model's output at a pixel: without
\* a session, and in the except branch, ensure_png_alpha(img) is returned;
\* otherwise the image masked by threshold(m)
birefnet_remove_bg_uncaught(b, choice, throws, m) ==
    IF gsession = "None"
    THEN [raises |-> FALSE, logs |-> "not initialized", img |-> ensure_png_alpha(b),
          mask |-> NoMask]
    ELSE IF throws
    THEN [raises |-> TRUE, logs |-> "inference failed", img |-> b, mask |-> NoMask]
    ELSE [raises |-> FALSE, logs |-> "completed", img |-> masked(b, choice),
          mask |-> [result |-> m, mask |-> threshold(m)]]

birefnet_remove_bg(b, choice, throws, m) ==
    IF gsession = "None"
    THEN [raises |-> FALSE, logs |-> "not initialized", img |-> ensure_png_alpha(b),
          mask |-> NoMask]
    ELSE IF throws
    THEN [raises |-> FALSE, logs |-> "inference failed", img |-> ensure_png_alpha(b),
          mask |-> NoMask]
    ELSE [raises |-> FALSE, logs |-> "completed", img |-> masked(b, choice),
          mask |-> [result |-> m, mask |-> threshold(m)]]

\* run_pipeline: `img = birefnet_remove_bg(img, bg_choice)`
run_pipeline_remove_bg ==
    /\ gpc = "bg"
    /\ \E throws \in BOOLEAN, m \in MaskTenths :
          LET r == birefnet_remove_bg(gimg, bg_choice, throws, m) IN
          /\ glog' = glog \cup {<<gsrc, r.logs>>}
          /\ gmask' = r.mask
          /\ IF r.raises
             THEN /\ gpc' = "dead"
                  /\ gfailed' = gfailed \cup {gsrc}
                  /\ UNCHANGED gimg
             ELSE /\ gpc' = "save"
                  /\ gimg' = r.img
                  /\ UNCHANGED gfailed
    /\ UNCHANGED <<guiRest, bg_choice, tone_on, items, processing, batches, gbatch, gidx, gsrc,
                   gok, gchild, gtmp, gout, gdone, doneSignals, gsink>>

\* the enhancement step that throws in a tone correction, if any
ToneThrows == {"none", "Color", "Brightness"}

\* tone_correction(img), and the same statements inline in run_pipeline:
\* `img` is rebound after ImageEnhance.Color and again after
\* ImageEnhance.Brightness; the except clause logs and goes on with `img` as
\* it is then bound. Both enhancers keep mode and size.
tone_correction(b, throws) ==
    CASE throws = "Color" -> [failed |-> TRUE, img |-> b]
      [] throws = "Brightness" ->
            [failed |-> TRUE, img |-> [b EXCEPT !.by = Append(@, "Color")]]
      [] throws = "none" ->
            [failed |-> FALSE,
             img |-> [b EXCEPT !.by = Append(Append(@, "Color"), "Brightness")]]

\* run_pipeline: the tone correction when tone_on (its errors are caught and
\* logged), save_resized_all, crossfade_replace of the item's thumbnail, then
\* the removal of upscaled_tmp. Nothing catches a failure to save: the thread
\* ends there.
run_pipeline_save ==
    /\ gpc = "save"
    /\ \E throws \in ToneThrows :
          LET t == IF tone_on THEN tone_correction(gimg, throws)
                   ELSE [failed |-> FALSE, img |-> gimg] IN
          /\ gimg' = t.img
          /\ gmask' = NoMask
          /\ glog' = IF t.failed THEN glog \cup {<<gsrc, "tone failed">>} ELSE glog
          /\ \/ /\ gout' = gout \cup {gsrc}
                /\ gsink' = Append(gsink, <<"item", gsrc>>)
                /\ gdone' = gdone \cup {gsrc}
                /\ gtmp' = gtmp \ {gidx}
                /\ gpc' = "loop"
                /\ UNCHANGED gfailed
             \/ /\ gpc' = "dead"
                /\ gfailed' = gfailed \cup {gsrc}
                /\ UNCHANGED <<gout, gdone, gtmp, gsink>>
    /\ UNCHANGED <<guiRest, bg_choice, tone_on, items, processing, batches, gbatch, gidx, gsrc,
                   gok, gchild, doneSignals>>

\* ---------------------------------------------------- GuiSpec: FancyUI
\* Before FancyUI is used. inference.bg_session is None at import and only
\* load_birefnet(model_path), which needs the weight file, binds it; nothing in
\* gui.py calls it, so a session is there only if the host loaded one.
GuiInit ==
    /\ file \in {f \in [Paths -> {"absent", "complete"}] :
                    \A p \in Paths : p # "birefnet_onnx" => f[p] = "absent"}
    /\ downloads = [a \in Artifacts |-> 0]
    /\ epc = [w \in Images |-> "idle"]
    /\ eart = [w \in Images |-> "gfpgan"]
    /\ calls = [w \in Images |-> 0]
    /\ CliIdle
    /\ QtIdle
    /\ MainIdle
    /\ items = <<>>
    /\ processing = FALSE
    /\ batches = 0
    /\ gbatch = <<>>
    /\ gpc = "idle"
    /\ gidx = 0
    /\ gsrc = 0
    /\ gok = FALSE
    /\ gchild = "none"
    /\ gimg = NoImage
    /\ gtmp = {}
    /\ gout = {}
    /\ gdone = {}
    /\ gfailed = {}
    /\ doneSignals = 0
    /\ glog = {}
    /\ gsink = <<>>
    /\ bg_choice = "transparent"
    /\ tone_on = TRUE
    /\ gmask = NoMask
    /\ ginstall \in {"ready", "no_exe", "no_models"}
    /\ gsession \in {"None", "session"}
    /\ gsession = "session" => file["birefnet_onnx"] = "complete"

GuiNext ==
    \/ \E sel \in Selections : select_images(sel)
    \/ start
    \/ run_pipeline_loop
    \/ realesrgan_upscale
    \/ gui_realesrgan_process
    \/ realesrgan_upscale_returns
    \/ run_pipeline_open
    \/ run_pipeline_remove_bg
    \/ run_pipeline_save

GuiSpec == GuiInit /\ [][GuiNext]_vars

\* ------------------------------------------ src/main.py: Sl0thifierGUI
\* what no step of Sl0thifierGUI or of a Worker writes
qtRest == <<storeVars, cliVars, guiVars, mainVars>>

\* handle_dropped_files: self.selected_paths = paths
handle_dropped_files(sel) ==
    /\ selected_paths' = sel
    /\ UNCHANGED <<qtRest, clicks, wpc, wlog, wsaved, finished, label>>

\* sl0thify_images: nothing without dropped paths; otherwise start_thread
\* creates and starts a QThread with a Worker for every path. The model
\* follows one Worker per image: the button is pressed again only when the
\* Workers of the press before have all been reported.
sl0thify_images ==
    /\ selected_paths # <<>>
    /\ clicks < MaxBatches
    /\ \A w \in Images : wpc[w] \in {"none", "finished"}
    /\ finished = <<>>
    /\ clicks' = clicks + 1
    /\ wpc' = [w \in Images |->
                  IF \E k \in 1..Len(selected_paths) : selected_paths[k] = w
                  THEN "started" ELSE wpc[w]]
    /\ wlog' = [w \in Images |->
                  IF \E k \in 1..Len(selected_paths) : selected_paths[k] = w
                  THEN "none" ELSE wlog[w]]
    /\ UNCHANGED <<qtRest, selected_paths, wsaved, finished, label>>

\* Worker.run, the try block and its except clause: Image.open, image.load,
\* KingSl0th().sl0thify(...) and result_image.save(save_path) all return and
\* "Output saved to" is logged, or one of them raises and
\* "[Worker][ERROR] Failed to sl0thify" is logged
Worker_run_try(w) ==
    /\ wpc[w] = "started"
    /\ wpc' = [wpc EXCEPT ![w] = "finally"]
    /\ \/ /\ wlog' = [wlog EXCEPT ![w] = "saved"]
          /\ wsaved' = wsaved \cup {w}
       \/ /\ wlog' = [wlog EXCEPT ![w] = "error"]
          /\ UNCHANGED wsaved
    /\ UNCHANGED <<qtRest, selected_paths, clicks, finished, label>>

\* Worker.run, the finally clause: self.progress.emit(100) (connected to
\* nothing) and self.finished.emit(self.img_path), queued to the GUI thread
Worker_run_finally(w) ==
    /\ wpc[w] = "finally"
    /\ wpc' = [wpc EXCEPT ![w] = "finished"]
    /\ finished' = Append(finished, w)
    /\ UNCHANGED <<qtRest, selected_paths, clicks, wlog, wsaved, label>>

\* on_done(img_path): self.label.setText(f"Sl0thified: {basename(img_path)}")
on_done ==
    /\ finished # <<>>
    /\ label' = Append(label, <<"Sl0thified", Head(finished)>>)
    /\ finished' = Tail(finished)
    /\ UNCHANGED <<qtRest, selected_paths, clicks, wpc, wlog, wsaved>>

QtInit ==
    /\ file = [p \in Paths |-> "absent"]
    /\ downloads = [a \in Artifacts |-> 0]
    /\ epc = [w \in Images |-> "idle"]
    /\ eart = [w \in Images |-> "gfpgan"]
    /\ calls = [w \in Images |-> 0]
    /\ CliIdle
    /\ GuiIdle
    /\ QtIdle
    /\ MainIdle

QtNext ==
    \/ \E sel \in Selections : handle_dropped_files(sel)
    \/ sl0thify_images
    \/ \E w \in Images : Worker_run_try(w)
    \/ \E w \in Images : Worker_run_finally(w)
    \/ on_done

QtSpec == QtInit /\ [][QtNext]_vars

\* ------------------------------------- src/sl0thify.py: main() and the files
MaxRuns == 2

\* what no step of main() writes at this level
mainRest == <<storeVars, cliVars, guiVars, qtVars>>

\* the image files a folder "in" can hold before the first run
SrcFiles ==
    {[dir |-> d, stem |-> n, ext |-> e] :
        d \in {"in", "in/sub"}, n \in {"a", "b"}, e \in {"jpg", "png"}}

\* --clip-limit (type=float) and --tile-size (type=int): argparse converts
\* the text and accepts every number; the defaults are 1.0 and 4
ClaheArgs == {<<1, 4>>, <<0, 1>>}

\* main: args.output_dir, or the folder "sl0thified" inside the input folder
output_dir ==
    IF args.output_dir # "default" THEN args.output_dir ELSE "in/sl0thified"

\* collect_images of a folder: p.rglob("*.jpg") + p.rglob("*.jpeg") +
\* p.rglob("*.png"), every folder below the input folder included
rglob(files) == {p \in files : p.dir \in {"in", "in/sub", "in/sl0thified"}}

\* process_image: `output_path = output_dir / img_path.name`
output_path(p) == [dir |-> output_dir, stem |-> p.stem, ext |-> p.ext]

\* the layout of what ks.sl0thify returns (the resize keeps the layout)
final_mode == IF cfg.remove_bg THEN bg_result_mode ELSE "RGB"

\* final.save(output_path): the format is taken from the suffix; the JPEG
\* writer raises OSError "cannot write mode RGBA as JPEG"
save_accepts(ext, mode) == ext = "png" \/ mode # "RGBA"

\* main() up to its loop: parse_args, collect_images, output_dir.mkdir
main_collect ==
    /\ mpc = "parse"
    /\ img_paths' = rglob(disk)
    /\ collected' = Append(collected, rglob(disk))
    /\ returned' = {}
    /\ wrote' = {}
    /\ refused' = {}
    /\ mpc' = "loop"
    /\ UNCHANGED <<mainRest, args, disk, runs>>

\* one turn of `for img_path in img_paths` (the *.jpg come first): the whole
\* of process_image. Image.open or a stage raises and the except clause logs
\* it; or ks.sl0thify returns and final.save writes the output file, unless
\* the format refuses the layout, which the except clause logs as well.
main_process_image ==
    /\ mpc = "loop"
    /\ \E p \in img_paths :
          /\ p.ext = "png" => \A q \in img_paths : q.ext = "png"
          /\ img_paths' = img_paths \ {p}
          /\ \/ UNCHANGED <<disk, returned, wrote, refused>>
             \/ /\ returned' = returned \cup {p}
                /\ IF save_accepts(p.ext, final_mode)
                   THEN /\ disk' = disk \cup {output_path(p)}
                        /\ wrote' = wrote \cup {<<p, output_path(p)>>}
                        /\ UNCHANGED refused
                   ELSE /\ refused' = refused \cup {p}
                        /\ UNCHANGED <<disk, wrote>>
    /\ UNCHANGED <<mainRest, args, runs, mpc, collected>>

\* the loop is over and main() returns
main_return ==
    /\ mpc = "loop"
    /\ img_paths = {}
    /\ mpc' = "exit"
    /\ UNCHANGED <<mainRest, args, disk, runs, img_paths, collected, returned, wrote, refused>>

\* the same command line is run again
main ==
    /\ mpc = "exit"
    /\ runs < MaxRuns
    /\ runs' = runs + 1
    /\ mpc' = "parse"
    /\ UNCHANGED <<mainRest, args, disk, img_paths, collected, returned, wrote, refused>>

MainInit ==
    /\ file = [p \in Paths |-> "complete"]
    /\ downloads = [a \in Artifacts |-> 0]
    /\ epc = [w \in Images |-> "idle"]
    /\ eart = [w \in Images |-> "gfpgan"]
    /\ calls = [w \in Images |-> 0]
    /\ cfg \in Configs
    /\ idx = 0
    /\ pc = [i \in Images |-> "pending"]
    /\ img = [i \in Images |-> NoImage]
    /\ orig = [i \in Images |-> NoImage]
    /\ started = [i \in Images |-> <<>>]
    /\ io = [i \in Images |-> <<>>]
    /\ child = [i \in Images |-> "none"]
    /\ tmp = [i \in Images |-> {}]
    /\ saved = {}
    /\ result = [i \in Images |-> "none"]
    /\ err = [i \in Images |-> "none"]
    /\ face = [i \in Images |-> FALSE]
    /\ emptied = {}
    /\ sessions = 0
    /\ GuiIdle
    /\ QtIdle
    /\ args \in {[clip_limit |-> c[1], tile_size |-> c[2], output_dir |-> o] :
                    c \in ClaheArgs, o \in {"default", "out"}}
    /\ disk \in {d \in SUBSET SrcFiles : Cardinality(d) \in 1..NImages}
    /\ runs = 0
    /\ mpc = "exit"
    /\ img_paths = {}
    /\ collected = <<>>
    /\ returned = {}
    /\ wrote = {}
    /\ refused = {}

MainNext ==
    \/ main
    \/ main_collect
    \/ main_process_image
    \/ main_return

MainSpec == MainInit /\ [][MainNext]_vars

\* ================================================================ claims
Range(q) == {q[k] : k \in 1..Len(q)}

\* the five steps of KingSl0th.sl0thify in the order of the state machine
StageOrder == <<"refocus", "upscale", "enhance", "bg", "resize">>

\* the stages the configuration asks for, in order
RequestedStages ==
    <<"refocus", "upscale", "enhance">>
        \o (IF cfg.remove_bg THEN <<"bg">> ELSE <<>>)
        \o <<"resize">>

\* C1: for every image the stages of KingSl0th.sl0thify are begun in the fixed
\* order refocus, upscale, enhance, background removal (only when requested),
\* resize, none twice and none skipped before a later one; a stage is begun
\* only when every earlier one has returned, and its input is the output of
\* the stage before it (the decoded image for the first).
C1_StagesInOrder ==
    \A i \in Images :
        /\ Len(started[i]) <= Len(RequestedStages)
        /\ started[i] = SubSeq(RequestedStages, 1, Len(started[i]))
        /\ Len(io[i]) \in {Len(started[i]), Len(started[i]) - 1}
        /\ \A k \in 1..Len(io[i]) :
              /\ io[i][k][1] = started[i][k]
              /\ io[i][k][2] = (IF k = 1 THEN orig[i] ELSE io[i][k - 1][3])
        /\ (io[i] # <<>> /\ pc[i] # "failed") => img[i] = io[i][Len(io[i])][3]

\* an image that went through all five stages and was saved
C1_Witness ==
    \E i \in Images :
        /\ pc[i] = "done"
        /\ started[i] = StageOrder
        /\ Len(io[i]) = Len(StageOrder)
        /\ img[i].by = StageOrder

\* what the batch holds about image j
ImageState(j) == <<pc[j], img[j], orig[j], started[j], io[j], child[j], tmp[j],
                   result[j], err[j], j \in saved>>

\* C4: the step in which an image fails ends its run (Failed), writes no
\* output and changes nothing of any other image; once failed, no further
\* stage of that image is begun or returns and no output is ever written for it.
C4_HardFailureStops ==
    [][\A i \in Images :
          /\ (result[i] # "failed" /\ result'[i] = "failed") =>
                /\ pc'[i] = "failed"
                /\ saved' = saved
                /\ \A j \in Images \ {i} : ImageState(j)' = ImageState(j)
          /\ result[i] = "failed" =>
                /\ ImageState(i)' = ImageState(i)
                /\ i \notin saved]_vars

\* one image failed inside a stage, the other one was processed and saved
C4_Witness ==
    \E i \in Images, j \in Images :
        /\ result[i] = "failed" /\ pc[i] = "failed"
        /\ err[i] \in {"RuntimeError", "ModelNotInstalled", "cv2.error"}
        /\ Len(started[i]) = Len(io[i]) + 1
        /\ i \notin saved
        /\ result[j] = "ok" /\ j \in saved

\* C5: at no time are two installs of one artifact in flight, and when every
\* worker has made one call, for the same artifact, and all have returned,
\* at most one download was made.
C5_SingleFlightInstall ==
    /\ \A v \in Images, w \in Images :
          (v # w /\ InFlight(v) /\ InFlight(w)) => eart[v] # eart[w]
    /\ \A a \in Artifacts :
          (\A w \in Images : calls[w] = 1 /\ eart[w] = a /\ epc[w] = "returned")
              => downloads[a] <= 1

\* C6: when ensure_model has failed with ModelNotInstalled (and no other
\* worker ever called ensure_model) nothing exists at the artifact's
\* canonical path; and ensure_model never returns with a file at the canonical
\* path that is not completely written.
C6_FailedInstallLeavesNothing ==
    \A w \in Images :
        /\ (epc[w] = "ModelNotInstalled" /\ \A v \in Images \ {w} : calls[v] = 0)
              => ~exists(MODEL_PATH(eart[w]))
        /\ epc[w] = "returned" => file[MODEL_PATH(eart[w])] = "complete"

\* C7: an ensure_model call that finds the artifact at its canonical path
\* returns in that very step, performs no download and leaves every file of
\* the install directory as it is.
C7_EnsureIdempotent ==
    [][\A w \in Images :
          (epc[w] = "check" /\ exists(MODEL_PATH(eart[w])) /\ epc'[w] # epc[w]) =>
              /\ epc'[w] = "returned"
              /\ file' = file
              /\ downloads' = downloads]_vars

\* every worker has called ensure_model twice, last for the same artifact,
\* all calls returned and the artifact was downloaded once
C7_Witness ==
    \E a \in Artifacts :
        /\ downloads[a] = 1
        /\ file[MODEL_PATH(a)] = "complete"
        /\ \A w \in Images : calls[w] = MaxCalls /\ eart[w] = a /\ epc[w] = "returned"

\* C10: an image whose upscaler subprocess never exits is not blocked: the
\* wait of _run_realesrgan can still return (by its timeout) and end the run.
C10_WaitIsBounded ==
    \A i \in Images :
        (pc[i] = "upscale_wait" /\ child[i] = "hung") => ENABLED run_realesrgan_end(i)

\* C2: when the batch thread has ended and an item of the batch has failed,
\* every other item of the batch was still processed to its own result.
C2_FailureIsolated ==
    (batches > 0 /\ ~ThreadAlive /\ items = gbatch /\ gfailed # {}) =>
        \A j \in Range(gbatch) : j \in gdone \cup gfailed

\* C3: when no batch thread is running the executor is idle again and every
\* batch started has emitted its completion signal.
C3_BatchCompletes ==
    ~ThreadAlive => (~processing /\ doneSignals = batches)

\* C8: the FancyUI pipeline goes on past upscaling only with the upscaled
\* image, never with the original.
C8_NoPassThrough ==
    gpc \in {"bg", "save"} => Head(gimg.by) = "upscaled_tmp"

\* C9: an __sloth_upscaled_* file exists only while the batch thread is
\* processing the image it belongs to.
C9_NoTempFileRemains ==
    \A k \in gtmp : ThreadAlive /\ gidx = k /\ gpc \in {"upscale_wait", "open", "bg", "save"}

\* C11: an item whose upscaler subprocess timed out is not taken to the later
\* steps of run_pipeline and is not processed to a saved result; and when the
\* batch thread has ended, the other items of the batch have their results.
C11_TimeoutFailsImage ==
    \A j \in Images :
        <<j, "timed out">> \in glog =>
            /\ ~(gsrc = j /\ gpc \in {"open", "bg", "save"})
            /\ j \notin gdone
            /\ (~ThreadAlive /\ items = gbatch) =>
                  \A k \in Range(gbatch) : k \in gdone \cup gfailed \cup {j}

\* number of notifications for item j the window was shown in this batch
ItemNotifications(j) ==
    Cardinality({k \in 1..Len(gsink) : gsink[k] = <<"item", j>>})

\* C14: an item is notified only when it has its result; and when the thread
\* of a batch in which items reached their results has ended, every item of
\* the batch, processed or failed, has been notified exactly once and the
\* completion signal came last.
C14_OneNotificationPerItem ==
    /\ \A k \in 1..Len(gsink) :
          gsink[k][1] = "item" => gsink[k][2] \in gdone \cup gfailed
    /\ (batches > 0 /\ ~ThreadAlive /\ items = gbatch /\ gdone \cup gfailed # {}) =>
          /\ \A j \in Range(gbatch) : ItemNotifications(j) = 1
          /\ gsink # <<>> /\ gsink[Len(gsink)] = <<"done">>
          /\ Len(gsink) = Len(gbatch) + 1

\* C16: the birefnet_remove_bg step of run_pipeline never ends the thread; the
\* image it returns is RGBA and of the size of its input; and without a
\* session, or when inference threw, its colour values are those of the input.
C16_BirefnetSoftFails ==
    [][(gpc = "bg" /\ gpc' # gpc) =>
          /\ gpc' = "save"
          /\ gfailed' = gfailed
          /\ gimg'.mode = "RGBA" /\ gimg'.w = gimg.w /\ gimg'.h = gimg.h
          /\ (gsession = "None" \/ <<gsrc, "inference failed">> \in glog' \ glog)
                => gimg'.by = gimg.by]_vars

\* with a session, inference threw for the current item and the pipeline went
\* on to saving with the colours of the decoded image
C16_Witness ==
    /\ gsession = "session"
    /\ gpc = "save"
    /\ <<gsrc, "inference failed">> \in glog
    /\ gimg.mode = "RGBA" /\ Len(gimg.by) = 1

C15_FailureReportedAsFailed ==
    [][Len(label') > Len(label) =>
          LET n == label'[Len(label')] IN
          wlog[n[2]] = "error" => n[1] # "Sl0thified"]_vars

\* the stage image i failed in: begun and not returned
FailedIn(i, stage) ==
    /\ pc[i] = "failed"
    /\ started[i] # <<>> /\ started[i][Len(started[i])] = stage
    /\ Len(io[i]) = Len(started[i]) - 1

\* C12: when the upscaling stage fails with ModelNotInstalled no subprocess
\* was started and no temporary directory or file made for the image, and no
\* file of the failed install (the downloaded archive) is left behind.
C12_MissingExeLeavesNoTemp ==
    [][\A i \in Images :
          (pc[i] = "upscale_ensure" /\ pc'[i] = "failed"
              /\ err'[i] = "ModelNotInstalled") =>
                /\ child[i] = "none" /\ child'[i] = "none"
                /\ tmp[i] = {} /\ tmp'[i] = {}
                /\ file'["realesrgan_zip"] = "absent"]_vars

\* C13: an image that got through its pipeline went through face restoration,
\* upscaling, enhancement and resizing whatever the configuration, and through
\* background removal exactly when remove_bg was set.
C13_StagesUnconditional ==
    \A i \in Images :
        /\ pc[i] \in {"save", "done"} => started[i] = RequestedStages
        /\ (\E k \in 1..Len(started[i]) : started[i][k] = "bg") => cfg.remove_bg

\* C17: ImageBackgroundRemover.sl0thify returns an image only after
\* ensure_model returned and with a completely written weight file; when
\* ensure_model failed it fails with ModelNotInstalled, when the weight file
\* cannot be loaded or inference throws it fails with RuntimeError, and it
\* fails in no other way.
C17_BgRemoverHardFails ==
    [][\A i \in Images :
          (pc[i] = "bg_ensure" /\ pc'[i] # pc[i]) =>
              /\ epc[i] = "ModelNotInstalled" =>
                    /\ pc'[i] = "failed" /\ err'[i] = "ModelNotInstalled"
              /\ (epc[i] = "returned" /\ file["birefnet_onnx"] # "complete") =>
                    /\ pc'[i] = "failed" /\ err'[i] = "RuntimeError"
              /\ pc'[i] = "failed" =>
                    /\ err'[i] \in {"ModelNotInstalled", "RuntimeError"}
                    /\ io'[i] = io[i] /\ img'[i] = img[i]
              /\ pc'[i] # "failed" =>
                    /\ epc[i] = "returned" /\ file["birefnet_onnx"] = "complete"
                    /\ Len(io'[i]) = Len(io[i]) + 1]_vars

\* one image failed in background removal with ModelNotInstalled, the download
\* having left a truncated weight file, and the next one with RuntimeError
C17_Witness ==
    /\ file["birefnet_onnx"] = "partial"
    /\ \E i \in Images, j \in Images :
          /\ FailedIn(i, "bg") /\ err[i] = "ModelNotInstalled"
          /\ FailedIn(j, "bg") /\ err[j] = "RuntimeError"

\* C18: when subprocess.run raises, and when the subprocess has exited with a
\* non-zero status or without the output file, the upscaling stage fails with
\* RuntimeError and returns no image.
C18_SubprocessFailureIsRuntimeError ==
    [][\A i \in Images :
          /\ (child[i] # "raised" /\ child'[i] = "raised") =>
                /\ pc'[i] = "failed" /\ err'[i] = "RuntimeError"
                /\ io'[i] = io[i]
          /\ (pc[i] = "upscale_wait" /\ pc'[i] # pc[i]
                 /\ ~(child[i] = "exited0" /\ "out" \in tmp[i])) =>
                /\ pc'[i] = "failed" /\ err'[i] = "RuntimeError"
                /\ io'[i] = io[i]]_vars

\* C19: an image that failed in the enhancement stage failed with RuntimeError.
C19_EnhancerRaisesRuntimeError ==
    \A i \in Images : FailedIn(i, "enhance") => err[i] = "RuntimeError"

\* C21: over the images of one process at most one inference session is
\* constructed for background removal.
C21_OneSessionPerProcess ==
    sessions <= 1

\* C22: an image without a face never fails in face restoration, and as long
\* as no image with a face was opened the GFPGAN weights are not downloaded.
C22_FaceCheckBeforeWeights ==
    /\ \A i \in Images : ~face[i] => ~FailedIn(i, "refocus")
    /\ (\A i \in Images : ~face[i]) => downloads["gfpgan"] = 0

\* C23: once its weights are there, face restoration never ends the pipeline
\* of an image: the only failure of the stage is ModelNotInstalled.
C23_RestorationFailureFallsBack ==
    \A i \in Images : FailedIn(i, "refocus") => err[i] = "ModelNotInstalled"

\* C25: an image that got through its pipeline is RGBA when background
\* removal was requested without a colour, and RGB otherwise.
C25_OutputLayout ==
    \A i \in Images :
        pc[i] \in {"save", "done"} =>
            img[i].mode = (IF cfg.remove_bg /\ cfg.bg_color = "none"
                           THEN "RGBA" ELSE "RGB")

\* two images were saved RGBA after background removal without a colour, one
\* restored by GFPGAN and one without a face
C25_Witness ==
    /\ cfg.remove_bg /\ cfg.bg_color = "none"
    /\ \E i \in Images, j \in Images :
          /\ pc[i] = "done" /\ face[i] /\ i \in emptied /\ img[i].mode = "RGBA"
          /\ pc[j] = "done" /\ ~face[j] /\ img[j].mode = "RGBA"

\* C26: every resize step returns an image of exactly the target width and
\* height, whatever the size of its input, also when the input has that size
\* already; an image that is Done under a target (W,H) is W x H.
C26_ResizeToTarget ==
    \A i \in Images :
        /\ \A k \in 1..Len(io[i]) :
              io[i][k][1] = "resize" =>
                  /\ io[i][k][3].w = cfg.output_width
                  /\ io[i][k][3].h = cfg.output_height
        /\ (pc[i] = "done" /\ cfg.output_width # 0 /\ cfg.output_height # 0) =>
              /\ img[i].w = cfg.output_width /\ img[i].h = cfg.output_height

\* a 128 x 128 file without a face, upscaled to 512 x 512, resized to the
\* target 512 x 512 and Done; the other image came to the resize step larger
C26_Witness ==
    /\ cfg.output_width = 512 /\ cfg.output_height = 512
    /\ \E i \in Images, j \in Images :
          /\ pc[i] = "done" /\ orig[i].w = 128 /\ orig[i].h = 128
          /\ io[i][Len(io[i])][1] = "resize"
          /\ io[i][Len(io[i])][2].w = 512 /\ io[i][Len(io[i])][2].h = 512
          /\ img[i].w = 512 /\ img[i].h = 512
          /\ pc[j] = "done" /\ io[j][Len(io[j])][2].w = 2048
          /\ img[j].w = 512 /\ img[j].h = 512

\* C30: when face restoration is over for an image with a face whose weights
\* were there, torch.cuda.empty_cache() has been called for it.
C30_CacheReleased ==
    \A i \in Images :
        (face[i] /\ (io[i] # <<>>
                       \/ (FailedIn(i, "refocus") /\ err[i] # "ModelNotInstalled")))
            => i \in emptied

\* the Worker threads that are executing Worker.run
RunningWorkers == {w \in Images : wpc[w] \in {"started", "finally"}}

\* C24: the Workers running at the same time are fewer than the images of the
\* largest batch: some worker-count limit makes an image wait.
C24_WorkerLimit ==
    Cardinality(RunningWorkers) < NImages

\* C27: when birefnet_remove_bg completed with a session, the image is RGBA
\* with the thresholded mask as its alpha channel for "transparent", and a
\* 3-channel image for a colour.
C27_BackgroundLayout ==
    (gpc = "save" /\ <<gsrc, "completed">> \in glog) =>
        IF bg_choice = "transparent"
        THEN gimg.mode = "RGBA" /\ gimg.by[Len(gimg.by)] = "alpha_mask"
        ELSE gimg.mode = "RGB"

\* C28: the tone correction of run_pipeline keeps the size and the mode of the
\* image, and when one of its enhancement steps threw the image goes on as it
\* was before the correction.
C28_TonePreserves ==
    [][(gpc = "save" /\ gpc' # gpc) =>
          /\ gimg'.w = gimg.w /\ gimg'.h = gimg.h /\ gimg'.mode = gimg.mode
          /\ <<gsrc, "tone failed">> \in glog' => gimg' = gimg]_vars

\* C29: when run_pipeline asks for a background removal and the weight file is
\* there, the inference session exists.
C29_SessionWhenWeightsAvailable ==
    (gpc = "bg" /\ file["birefnet_onnx"] = "complete") => gsession = "session"

\* C32: when ImageUpscaler.ensure_model has returned or failed (and no other
\* worker ever called ensure_model), realesrgan.zip is not on disk.
C32_ArchiveRemoved ==
    \A w \in Images :
        (/\ eart[w] = "realesrgan"
         /\ epc[w] \in EnsureDone
         /\ \A v \in Images \ {w} : calls[v] = 0)
            => file["realesrgan_zip"] = "absent"

\* C31: for a solid colour the blend weight of a pixel follows the model's
\* output: an output strictly between 0 and 1 gives a weight strictly between
\* 0 and 255 (of 255).
C31_ColourBlendsByContinuousMask ==
    (/\ gpc = "save" /\ <<gsrc, "completed">> \in glog
     /\ bg_choice # "transparent"
     /\ gmask.result > 0 /\ gmask.result < 10)
        => (gmask.mask > 0 /\ gmask.mask < 255)

\* C34: start launches the run_pipeline thread only when none is running and
\* the flag is down, and raises the flag; the flag goes down only in the step
\* in which the thread ends its loop; a running thread has the flag up.
C34_OneBatchThread ==
    [][/\ batches' # batches => (~ThreadAlive /\ ~processing /\ processing')
       /\ (processing /\ ~processing') => (gpc = "loop" /\ gpc' = "idle")
       /\ ThreadAlive' => processing']_vars

\* the second batch is running, after the thread of the first has finished
C34_Witness ==
    batches = 2 /\ doneSignals = 1 /\ ThreadAlive /\ processing /\ gpc = "save"

\* C35: while the run_pipeline thread is running, self.items is not changed.
C35_ItemsStableInFlight ==
    [][ThreadAlive => items' = items]_vars

\* C33: the pipeline has run for an image only under a clip limit above 0 and
\* a tile size of at least 2.
C33_ClaheArgsValidated ==
    returned # {} => (args.clip_limit > 0 /\ args.tile_size >= 2)

\* C36: two saves of one run that went to the same output path came from the
\* same source.
C36_DistinctOutputPaths ==
    \A s \in wrote, t \in wrote : s[2] = t[2] => s[1] = t[1]

\* C37: with the default output folder, the second run collects the files the
\* first run collected.
C37_RerunCollectsSameSources ==
    (args.output_dir = "default" /\ Len(collected) >= 2) => collected[2] = collected[1]

\* C38: the save of an image that ks.sl0thify returned is never refused by the
\* file format of its output path.
C38_FormatAcceptsLayout ==
    refused = {}

====
